---- MODULE Spec2Model ----
(***************************************************************************)
(* A model of pyconvy (src/pyconvy/__init__.py): the Convy scheduler       *)
(* (addpath, processdirs, daemon_loop), the ConvyConfig tree walk          *)
(* (Process, ProcessMovie, ProcessTV, ProcessVideo, GetSettings), the      *)
(* notifier (SendNotification, GetPushoverCredentials) and the VideoHelp   *)
(* path and command helpers.                                               *)
(*                                                                         *)
(* The file system, the descriptor files, mediainfo and ffmpeg are the     *)
(* environment.  The program only reads the environment's facts (the       *)
(* content of a convy.cfg, the size and the dimensions of a video file,    *)
(* whether a directory exists), so each fact is fixed the first time the   *)
(* program observes it and is "?" before that.  Dot files (markers) are    *)
(* the only files the program writes.                                      *)
(***************************************************************************)
EXTENDS Integers, Sequences, FiniteSets, TLC

VARIABLES
    cfg,        \* directory -> the parsed convy.cfg of its ConvyConfig, or NoCfg
    paths,      \* Convy._paths: the registered roots, in insertion order
    children,   \* registered node -> ConvyConfig._children
    dotfiles,   \* the dot files (markers) that exist
    fsize,      \* video -> "?" | "zero" | "nonzero"   (os.path.getsize)
    dims,       \* video -> <<>> (not probed yet) | <<w, h>>   (mediainfo)
    stemdir,    \* video -> "?" | "yes" | "no"  (does the directory of its outputs exist)
    pc,         \* where the process is
    cur,        \* the loop indices of the walk: root, leaf node, item, video, season
    call,       \* the frame of ProcessVideo
    fault,      \* the exception that ended the process, or "none"
    log,        \* history: what this cycle did, in order
    startfiles, \* history: the dot files that existed when this cycle started
                \* (before the first cycle: when the process started)
    failed,     \* history: the videos one of whose encode invocations failed (a pass
                \* raised or ended with a status that is not 0) and was not cut by a kill
    odd,        \* how many observed facts of the environment differ from the baseline
    result,     \* the value returned by the last direct call of GetSettings or of
                \* the ladder code (SpecFn), [op |-> "none"] elsewhere
    items,      \* registered node -> ConvyConfig._items (the directories Read listed)
    added,      \* whether the directory NewItem has appeared on the disk
    known,       \* the roots whose descriptors have been read once (they do not change)
    interrupted \* history: the videos whose ProcessVideo was cut by a kill

vars == <<cfg, paths, children, dotfiles, fsize, dims, stemdir, pc, cur, call,
          fault, log, startfiles, failed, odd, result, items, added, known,
          interrupted>>

(***************************************************************************)
(* Bounds of the model.                                                    *)
(***************************************************************************)
\* video.passes ranges over 0..MaxPasses
MaxPasses == 3

\* The environment is a baseline (every convy.cfg usable, every video 1920x1080
\* and not empty, every output directory present, no dot file) in which at most
\* MaxOdd facts are different; which facts, and how, is free.  What happens
\* from outside counts as well: in the baseline ffmpeg ends with status 0, the
\* notification is sent, os.listdir gives sorted names, nobody kills the process
\* or adds a directory.
MaxOdd == 1

(***************************************************************************)
(* Sequences and dictionaries.                                             *)
(***************************************************************************)
\* Python's None where a string is expected
None == "None"

\* no convy.cfg in the directory (a parsed one has at least its [main] section)
NoCfg == <<>>

\* the parent of a root (ConvyConfig._parent is None)
NoParent == <<>>

Reverse(s) == [i \in 1..Len(s) |-> s[Len(s) + 1 - i]]

Front(s) == SubSeq(s, 1, Len(s) - 1)

Last(s) == s[Len(s)]

Range(s) == {s[i] : i \in 1..Len(s)}

\* d[k] = v on a Python dict
Put(d, k, v) == [x \in (DOMAIN d) \cup {k} |-> IF x = k THEN v ELSE d[x]]

\* for k,v in kvs: d[k] = v
RECURSIVE ApplyAll(_, _)
ApplyAll(d, kvs) ==
    IF kvs = <<>> THEN d
    ELSE ApplyAll(Put(d, kvs[1][1], kvs[1][2]), Tail(kvs))

\* the value of key k in a section (a sequence of <<key, value>>), or None
RECURSIVE Lookup(_, _)
Lookup(kvs, k) ==
    IF kvs = <<>> THEN None
    ELSE IF kvs[1][1] = k THEN kvs[1][2]
    ELSE Lookup(Tail(kvs), k)

(***************************************************************************)
(* The file tree.  A directory is the sequence of its path components; a   *)
(* file is [dir, base, ext], its base name kept in pieces so that the      *)
(* string operations of VideoHelp can be followed.                         *)
(***************************************************************************)
RootA == <<"A">>
RootB == <<"B">>
Roots == {RootA, RootB}

\* the directory of a TV series below A/m2
Series == <<"A", "m2", "S">>

\* the sub-directories a directory has when the program starts, in sorted-name
\* order
ListDirs(d) ==
    CASE d = RootA -> << <<"A", "m1">>, <<"A", "m2">> >>
      [] d = <<"A", "m1">> -> << <<"A", "m1", "F1">> >>
      [] d = <<"A", "m2">> -> << Series >>
      [] d = RootB -> << <<"B", "G1">>, <<"B", "G2">> >>
      [] OTHER -> <<>>

\* a movie directory that may appear under the root B while the program runs
NewItem == <<"B", "G0">>

\* the directories that may hold a convy.cfg
ConfigDirs == {RootA, <<"A", "m1">>, <<"A", "m2">>, RootB}

\* the directories of the chain used to exercise GetSettings
ChainDirs == {RootA, <<"A", "m1">>, <<"A", "m1", "F1">>}

AllDirs == ConfigDirs \cup ChainDirs \cup {<<"B", "G1">>, <<"B", "G2">>, NewItem}

File(dir, name, ext) == [dir |-> dir, base |-> <<name>>, ext |-> ext]

\* os.listdir of an item directory, filtered by FilterFilesForVideos (sorted:
\* 'G2.mkv' is before 'extra.mkv'); G2 holds its feature and a special
VideoFiles(item) ==
    CASE item = <<"A", "m1", "F1">> -> << File(item, "F1", ".mkv") >>
      [] item = <<"B", "G1">> -> << File(item, "G1", ".mkv") >>
      [] item = <<"B", "G2">> -> << File(item, "G2", ".mkv"), File(item, "extra", ".mkv") >>
      [] item = NewItem -> << File(item, "G0", ".mkv") >>
      [] OTHER -> <<>>

\* ProcessTV: the directories os.listdir gives for a series directory (one
\* season)
Seasons(item) == IF item = Series THEN << Series \o <<"S1">> >> ELSE <<>>

\* _ProcessTV_Season: the files of a season directory, filtered by
\* FilterFilesForVideos (one episode, no directory of specials)
Episodes(season) == << File(season, "e1", ".mkv") >>

Items == {<<"A", "m1", "F1">>, <<"B", "G1">>, <<"B", "G2">>, NewItem, Series}

Videos == UNION {Range(VideoFiles(it)) : it \in Items}
          \cup UNION {Range(Episodes(se)) : se \in Range(Seasons(Series))}

\* the directory Process was given for the video: the movie directory of a
\* movie file, the series directory of an episode
ItemOf(v) == IF v.dir \in Range(Seasons(Series)) THEN Front(v.dir) ELSE v.dir

Tiers == {"sd", "hd", "1k", "4k"}

\* the dimension pairs mediainfo may report
DimsSet == {<<720, 480>>, <<1080, 720>>, <<1920, 1080>>, <<4096, 2160>>,
            <<3840, 2160>>, <<640, 480>>}

(***************************************************************************)
(* VideoHelp: paths and resolutions.                                       *)
(***************************************************************************)
\* VideoHelp.GetDotFileName: os.path.join(dir, '.' + name)
GetDotFileName(f) == [dir |-> f.dir, base |-> <<".">> \o f.base, ext |-> f.ext]

\* VideoHelp.GetFileResolutionName: s = os.path.splitext(fname);
\* os.path.join(s[0], ' ' + res + s[1]): the file ' <res><ext>' INSIDE the
\* directory named after the video without its extension
GetFileResolutionName(f, res) ==
    [dir |-> f.dir \o f.base, base |-> <<" ", res>>, ext |-> f.ext]

\* a variant of DotFileResolutionExists that forgets the resolution
DotFileOfSource(f, res) == GetDotFileName(f)

\* VideoHelp.DotFileResolutionExists: despite its name it returns the path
DotFileResolutionExists(f, res) == GetDotFileName(GetFileResolutionName(f, res))

\* ConvyConfig.Process: done = os.path.split(item)[0] + '/.' + os.path.split(item)[1]
ItemDone(item) == [dir |-> Front(item), base |-> <<".", Last(item)>>, ext |-> ""]

\* ConvyConfig.ProcessTV: os.path.join(path, '.' + season)
SeasonDone(season) == [dir |-> Front(season), base |-> <<".", Last(season)>>, ext |-> ""]

\* a variant of ItemAlreadyDone that finds no dot file
ItemNeverDone(files, item) == FALSE

\* ConvyConfig.Process: os.path.exists(done)
ItemAlreadyDone(files, item) == ItemDone(item) \in files

\* a variant of SeasonInDots that finds no dot file
SeasonNeverInDots(dots, season) == FALSE

\* ConvyConfig.ProcessTV: '.' + season in dots
SeasonInDots(dots, season) == SeasonDone(season) \in dots

\* VideoHelp.GuessResolution; the else branch formats its message with the
\* undefined name subp, so what it raises is a NameError
GuessResolution(w, h) ==
    IF <<w, h>> = <<720, 480>> THEN "sd"
    ELSE IF <<w, h>> = <<1080, 720>> THEN "hd"
    ELSE IF <<w, h>> = <<1920, 1080>> THEN "1k"
    ELSE IF <<w, h>> = <<4096, 2160>> \/ <<w, h>> = <<3840, 2160>> THEN "4k"
    ELSE "NameError"

(***************************************************************************)
(* Descriptor files.  A parsed convy.cfg is a function from section names  *)
(* to sections; a section is a sequence of <<key, value>> with distinct    *)
(* keys (configparser refuses duplicates).  The section 'settings-<res>'   *)
(* is named <<"settings", res>>.                                           *)
(***************************************************************************)
VALID_MODES == {"subdir", "movie", "tv", "soundtrack"}

MainMode(c) == Lookup(c[<<"main">>], "mode")

IsMainModeSubdir(c) == MainMode(c) = "subdir"

IsMainModeMovie(c) == MainMode(c) = "movie"

IsMainModeTV(c) == MainMode(c) = "tv"

\* the keys every profile below has
Rates == << <<"video.bitrate", "4M">>, <<"video.preset", "slow">> >>

\* the [settings] section of a usable configuration with p passes
Good(p) == << <<"video.codec", "hevc_nvenc">>, <<"video.passes", ToString(p)>>,
              <<"output.format", "matroska">> >> \o Rates

\* a software codec, an output format that is not matroska, no video.passes,
\* no video.bitrate
Software == << <<"video.codec", "libx265">>, <<"video.passes", "2">>,
               <<"output.format", "matroska">> >> \o Rates

BadFormat == << <<"video.codec", "hevc_nvenc">>, <<"video.passes", "2">>,
                <<"output.format", "mp4">> >> \o Rates

NoPasses == << <<"video.codec", "hevc_nvenc">>, <<"output.format", "matroska">> >>
            \o Rates

NoBitrate == << <<"video.codec", "hevc_nvenc">>, <<"video.passes", "2">>,
                <<"output.format", "matroska">>, <<"video.preset", "slow">> >>

Profiles == {Good(p) : p \in 0..MaxPasses}
            \cup {Software, BadFormat, NoPasses, NoBitrate}

Bool(b) == IF b THEN "true" ELSE "false"

\* a descriptor: [main] mode, [feature], [special] and [episode]
\* multipleresolution, optionally [settings], optionally one [settings-<res>] per tier (each with its
\* res key, as Read demands)
Descriptor(mode, multi, settings, tiered) ==
    [s \in {<<"main">>, <<"feature">>, <<"special">>, <<"episode">>}
           \cup (IF settings = <<>> THEN {} ELSE {<<"settings">>})
           \cup (IF tiered THEN {<<"settings", t>> : t \in Tiers} ELSE {}) |->
        IF s = <<"main">> THEN << <<"mode", mode>> >>
        ELSE IF s = <<"feature">> \/ s = <<"special">> \/ s = <<"episode">>
            THEN << <<"multipleresolution", Bool(multi)>> >>
        ELSE IF s = <<"settings">> THEN settings
        ELSE << <<"res", s[2]>> >>]

\* a [settings-<res>] section without its res key
NoResKey == [s \in {<<"main">>, <<"settings", "sd">>} |->
                IF s = <<"main">> THEN << <<"mode", "movie">> >>
                ELSE << <<"video.passes", "2">> >>]

\* what the convy.cfg of a directory may hold when it is read
CfgChoices(d) ==
    CASE d = RootA -> {NoCfg, Descriptor("subdir", FALSE, Good(2), FALSE)}
      [] d = <<"A", "m1">> ->
            {NoCfg} \cup {Descriptor("movie", m, <<>>, FALSE) : m \in BOOLEAN}
      [] d = <<"A", "m2">> ->
            {NoCfg, Descriptor("movie", FALSE, <<>>, FALSE),
             Descriptor("tv", TRUE, <<>>, FALSE), Descriptor("tv", FALSE, <<>>, FALSE),
             Descriptor("soundtrack", FALSE, <<>>, FALSE),
             Descriptor("bogus", FALSE, <<>>, FALSE), NoResKey}
      [] d = RootB ->
            {Descriptor("movie", m, p, FALSE) : m \in BOOLEAN, p \in Profiles}
            \cup {Descriptor("movie", TRUE, Good(2), TRUE)}
      [] OTHER -> {NoCfg}

\* the baseline: A is a subdir root whose m1 is a movie directory and whose m2
\* is a tv directory; B is a movie root; two passes, multiple resolutions
BaseCfg(d) ==
    CASE d = RootA -> Descriptor("subdir", FALSE, Good(2), FALSE)
      [] d = <<"A", "m1">> -> Descriptor("movie", TRUE, <<>>, FALSE)
      [] d = <<"A", "m2">> -> Descriptor("tv", TRUE, <<>>, FALSE)
      [] d = RootB -> Descriptor("movie", TRUE, Good(2), FALSE)
      [] OTHER -> NoCfg

BaseDims == <<1920, 1080>>

\* ConvyConfig.Read: the checks that raise ValueError
ReadOK(c) ==
    /\ <<"main">> \in DOMAIN c
    /\ Lookup(c[<<"main">>], "mode") # None
    /\ Lookup(c[<<"main">>], "mode") \in VALID_MODES
    /\ \A s \in DOMAIN c : (Len(s) = 2 /\ s[1] = "settings") => Lookup(c[s], "res") # None

\* ConvyConfig.Parent: the node of the enclosing directory, None at a root
Parent(d) == IF Len(d) = 1 THEN NoParent ELSE Front(d)

(***************************************************************************)
(* ConvyConfig.GetSettings on node d with the configurations cf.           *)
(***************************************************************************)
\* the while loop: bottom to top, the resolution section before the base section
RECURSIVE ToApply(_, _, _)
ToApply(cf, d, res) ==
    IF d = NoParent THEN <<>>
    ELSE (IF <<"settings", res>> \in DOMAIN cf[d] THEN cf[d][<<"settings", res>>] ELSE <<>>)
         \o (IF <<"settings">> \in DOMAIN cf[d] THEN cf[d][<<"settings">>] ELSE <<>>)
         \o ToApply(cf, Parent(d), res)

\* a variant of GetSettings that does not flip the order
GetSettingsUnflipped(cf, d, settings) ==
    ApplyAll(settings, ToApply(cf, d, settings["resolution"]))

GetSettings(cf, d, settings) ==
    ApplyAll(settings, Reverse(ToApply(cf, d, settings["resolution"])))

(***************************************************************************)
(* The ladder: the settings list that ProcessMovie hands to ProcessVideo.  *)
(***************************************************************************)
\* a variant of LadderSets that never fans out
LadderSetsSingle(cf, d, res, w, h, multi) ==
    <<GetSettings(cf, d, [resolution |-> res, width |-> w, height |-> h])>>

\* ConvyConfig.ProcessMovie, from the settings dict to the call of ProcessVideo
\* (_ProcessTV_SeasonEpisode and _ProcessTV_SeasonSpecial repeat the same lines).
\* In the hd branch GetSettings is applied to the shared dict settings and not
\* to the copy s: the first copy is appended unresolved, and the second copy is
\* taken from the dict that GetSettings has filled for hd by then.
LadderSets(cf, d, res, w, h, multi) ==
    LET settings == [resolution |-> res, width |-> w, height |-> h]
        Each(r) == GetSettings(cf, d, Put(settings, "resolution", r))
    IN  IF multi
        THEN IF res = "4k" THEN <<Each("4k"), Each("1k"), Each("hd"), Each("sd")>>
             ELSE IF res = "1k" THEN <<Each("1k"), Each("hd"), Each("sd")>>
             ELSE IF res = "hd"
                 THEN <<Put(settings, "resolution", "hd"),
                        Put(GetSettings(cf, d, settings), "resolution", "sd")>>
             ELSE <<GetSettings(cf, d, settings)>>
        ELSE <<GetSettings(cf, d, settings)>>

\* the multipleresolution flag ProcessMovie reads: [feature] when the file name
\* starts with the name of the movie directory, [special] otherwise
Multi(c, item, f) ==
    IF f.base[1] = Last(item)
    THEN Lookup(c[<<"feature">>], "multipleresolution") = "true"
    ELSE Lookup(c[<<"special">>], "multipleresolution") = "true"

\* the multipleresolution flag _ProcessTV_SeasonEpisode reads: [episode]
MultiEpisode(c) == Lookup(c[<<"episode">>], "multipleresolution") = "true"

\* int(lst_settings[0]['video.passes'])
IntOf(str) == CHOOSE n \in 0..(MaxPasses + 1) : ToString(n) = str

(***************************************************************************)
(* The ffmpeg command of one pass.                                         *)
(***************************************************************************)
\* os.devnull
DevNull == [dir |-> <<"dev">>, base |-> <<"null">>, ext |-> ""]

\* VideoHelp.BuildFfmpegCommand: the arguments are kept as the input followed by
\* one entry per output.  Both branches read video.codec, video.bitrate and
\* video.preset; the software branch then reads the undefined name i and raises
\* NameError.  Only pass 1 is sent to os.devnull.
BuildFfmpegCommand(args, srcfile, destfile, settings, passCnt) ==
    LET args0 == IF Len(args) = 0 THEN << [input |-> srcfile] >> ELSE args
    IN  IF {"video.codec", "video.bitrate", "video.preset"} \ DOMAIN settings # {}
            THEN [err |-> "KeyError", args |-> args0]
        ELSE IF settings["video.codec"] # "hevc_nvenc"
            THEN [err |-> "NameError", args |-> args0]
        ELSE [err |-> "none",
              args |-> Append(args0, [codec |-> settings["video.codec"],
                                      format |-> settings["output.format"],
                                      target |-> IF passCnt = 1 THEN DevNull ELSE destfile])]

\* a variant of AlreadyDone that finds no dot file
NeverDone(files, done) == FALSE

\* a variant of AlreadyDone that finds every dot file
AlwaysDone(files, done) == TRUE

\* os.path.exists(done) in ProcessVideo
AlreadyDone(files, done) == done \in files

\* ConvyConfig.ProcessVideo, the loop "for settings in lst_settings" of pass i+1:
\* acc is [err, args, dones]
RECURSIVE Aggregate(_, _, _, _, _)
Aggregate(files, path, lst, passCnt, acc) ==
    IF lst = <<>> \/ acc.err # "none" THEN acc
    ELSE LET settings == lst[1] IN
         IF "output.format" \notin DOMAIN settings
         THEN [acc EXCEPT !.err = "KeyError"]
         ELSE IF settings["output.format"] # "matroska"
         THEN [acc EXCEPT !.err = "ValueError"]
         ELSE LET dest == GetFileResolutionName(path, settings["resolution"])
                  done == DotFileResolutionExists(path, settings["resolution"])
              IN  IF AlreadyDone(files, done)
                  THEN Aggregate(files, path, Tail(lst), passCnt, acc)
                  ELSE LET b == BuildFfmpegCommand(acc.args, path, dest, settings, passCnt)
                       IN  Aggregate(files, path, Tail(lst), passCnt,
                                     [err |-> b.err, args |-> b.args,
                                      dones |-> Append(acc.dones, done)])

NoFile == [dir |-> <<>>, base |-> <<>>, ext |-> ""]

\* the loop indices as a walk starts: root, leaf node, item, video of a movie or
\* episode of a season, season; dots is the list of that name of ProcessTV
StartOfWalk == [r |-> 1, l |-> 1, i |-> 1, v |-> 1, s |-> 1, dots |-> {}]

NoCall == [item |-> <<>>, path |-> NoFile, sets |-> <<>>, passes |-> 0, i |-> 0,
           args |-> <<>>, dones |-> <<>>]

(***************************************************************************)
(* Convy.addpath and Convy._scansubdir.                                    *)
(***************************************************************************)
\* the sub-directories a directory has now, in sorted-name order
OnDisk(d) == IF d = RootB /\ added THEN <<NewItem>> \o ListDirs(d) ELSE ListDirs(d)

\* the orders in which os.listdir may give the entries s
Listings(s) == {l \in [1..Len(s) -> Range(s)] : \A x \in Range(s) : \E i \in 1..Len(s) : l[i] = x}

\* ConvyConfig.Directories of a node that Read has just filled (as a set: the
\* order is the one of the listing)
Directories(d) == OnDisk(d)

\* whether _scansubdir(d) ends with the ValueError of a Read below it
RECURSIVE ScanRaises(_, _)
ScanRaises(cf, d) ==
    /\ cf[d] # NoCfg
    /\ \/ ~ReadOK(cf[d])
       \/ /\ IsMainModeSubdir(cf[d])
          /\ \E i \in 1..Len(Directories(d)) : ScanRaises(cf, Directories(d)[i])

\* a variant of ScanChildren that adds a child for every sub-directory
EveryDirectory(cf, dirs, d) ==
    IF cf[d] # NoCfg /\ IsMainModeSubdir(cf[d]) THEN dirs ELSE <<>>

\* _scansubdir: the children added to node d, whose Directories are dirs; a
\* sub-directory for which _scansubdir returns None (no convy.cfg) is passed over
ScanChildren(cf, dirs, d) ==
    IF cf[d] # NoCfg /\ IsMainModeSubdir(cf[d])
    THEN SelectSeq(dirs, LAMBDA sub : cf[sub] # NoCfg)
    ELSE <<>>

\* the directories whose convy.cfg the scan of root reads
RECURSIVE Scanned(_, _)
Scanned(cf, d) ==
    {d} \cup (IF cf[d] # NoCfg /\ ReadOK(cf[d]) /\ IsMainModeSubdir(cf[d])
              THEN UNION {Scanned(cf, sub) : sub \in Range(Directories(d))}
              ELSE {})

Fault(kind) ==
    /\ pc' = "fault"
    /\ fault' = kind

\* addpath(path): the descriptors are read (those of a root read before are what
\* they were), the root's directory is listed in some order
addpath(path) ==
    /\ pc = "main"
    /\ path \notin Range(paths)
    /\ \E c0 \in CfgChoices(path) :
       \E cs \in [Range(OnDisk(path)) -> UNION {CfgChoices(d) : d \in Range(OnDisk(path))}] :
       \E ls \in Listings(OnDisk(path)) :
       LET cf == [d \in AllDirs |->
                    IF d = path THEN c0
                    ELSE IF d \in Range(OnDisk(path)) THEN cs[d]
                    ELSE cfg[d]]
           it == [d \in AllDirs |->
                    IF d = path THEN ls
                    ELSE IF d \in Scanned(cf, path) THEN OnDisk(d)
                    ELSE items[d]]
       IN
        /\ \A d \in AllDirs :
              IF d \in Scanned(cf, path) /\ path \notin known
              THEN cf[d] \in CfgChoices(d)
              ELSE cf[d] = cfg[d]
        /\ odd' = odd + (IF path \in known THEN 0
                         ELSE Cardinality({d \in Scanned(cf, path) : cf[d] # BaseCfg(d)}))
                      + (IF ls = OnDisk(path) THEN 0 ELSE 1)
        /\ odd' <= MaxOdd
        /\ known' = known \cup {path}
        /\ IF cf[path] = NoCfg
           THEN Fault("Exception") /\ UNCHANGED <<cfg, paths, children, items>>
           ELSE IF ScanRaises(cf, path)
           THEN Fault("ValueError") /\ UNCHANGED <<cfg, paths, children, items>>
           ELSE /\ cfg' = cf
                /\ paths' = Append(paths, path)
                /\ children' = [d \in AllDirs |->
                                  IF d \in Scanned(cf, path) THEN ScanChildren(cf, it[d], d)
                                  ELSE children[d]]
                /\ items' = it
                /\ UNCHANGED <<pc, fault>>
    /\ UNCHANGED <<dotfiles, fsize, dims, stemdir, cur, call, log, startfiles,
                   failed, result, added, interrupted>>

(***************************************************************************)
(* The initial state: nothing registered, nothing observed; the dot files  *)
(* that exist before the program starts are none, those of one rung of one *)
(* video, or those of every rung of every video.                           *)
(***************************************************************************)
\* the dot file of one resolution of a video as it is named on the disk:
\* '<dir>/<name>/. <res><ext>'
Marker(v, t) == [dir |-> v.dir \o v.base, base |-> <<".", " ", t>>, ext |-> v.ext]

RungMarkers(v) == {Marker(v, t) : t \in Tiers}

InitDotfiles ==
    {{}} \cup {UNION {RungMarkers(v) : v \in Videos \ Range(VideoFiles(NewItem))}}
         \cup {{Marker(File(<<"B", "G1">>, "G1", ".mkv"), t)} : t \in Tiers}
         \cup {{ItemDone(<<"B", "G1">>)}}
         \cup {{SeasonDone(se)} : se \in Range(Seasons(Series))}

NoResult == [op |-> "none"]

Init ==
    /\ cfg = [d \in AllDirs |-> NoCfg]
    /\ paths = <<>>
    /\ children = [d \in AllDirs |-> <<>>]
    /\ dotfiles \in InitDotfiles
    /\ fsize = [v \in Videos |-> "?"]
    /\ dims = [v \in Videos |-> <<>>]
    /\ stemdir = [v \in Videos |-> IF RungMarkers(v) \cap dotfiles # {} THEN "yes" ELSE "?"]
    /\ pc = "main"
    /\ cur = StartOfWalk
    /\ call = NoCall
    /\ fault = "none"
    /\ log = <<>>
    /\ startfiles = dotfiles
    /\ failed = {}
    /\ odd = IF dotfiles = {} THEN 0 ELSE 1
    /\ odd <= MaxOdd
    /\ result = NoResult
    /\ items = [d \in AllDirs |-> <<>>]
    /\ added = FALSE
    /\ known = {}
    /\ interrupted = {}

(***************************************************************************)
(* Convy.processdirs and ConvyConfig.Process.                              *)
(***************************************************************************)
\* the nodes whose items Process(d) walks, in the order of the recursion over
\* _children: a subdir node only recurses, every other node is visited itself
RECURSIVE Leaves(_, _, _)
Leaves(cf, ch, ds) ==
    IF ds = <<>> THEN <<>>
    ELSE (IF IsMainModeSubdir(cf[ds[1]]) THEN Leaves(cf, ch, ch[ds[1]]) ELSE <<ds[1]>>)
         \o Leaves(cf, ch, Tail(ds))

CurLeaves == Leaves(cfg, children, <<paths[cur.r]>>)

CurNode == CurLeaves[cur.l]

\* ConvyConfig._items of the node (the entries Read listed)
NodeItems(d) == items[d]

CurItem == NodeItems(CurNode)[cur.i]

CurVideo == VideoFiles(CurItem)[cur.v]

\* a call processdirs(dirs); the argument is not used
processdirs ==
    /\ pc \in {"main", "idle"}
    /\ pc' = "Process"
    /\ cur' = StartOfWalk
    /\ log' = <<>>
    /\ startfiles' = dotfiles
    /\ UNCHANGED <<cfg, paths, children, dotfiles, fsize, dims, stemdir, call, fault,
                   failed, odd, result,
                   items, added, known, interrupted>>

\* Convy.daemon_loop calls self.processdirs() without the argument dirs
daemon_loop ==
    /\ pc = "main"
    /\ Fault("TypeError")
    /\ UNCHANGED <<cfg, paths, children, dotfiles, fsize, dims, stemdir, cur, call,
                   log, startfiles, failed, odd, result,
                   items, added, known, interrupted>>

\* one step of the loops of processdirs and Process
Process ==
    /\ pc = "Process"
    /\ \/ \* every root has been walked: processdirs returns
          /\ cur.r > Len(paths)
          /\ pc' = "idle"
          /\ UNCHANGED <<cur, dotfiles, fault, log>>
       \/ \* Process of this root has returned: the next root
          /\ cur.r <= Len(paths)
          /\ cur.l > Len(CurLeaves)
          /\ cur' = [StartOfWalk EXCEPT !.r = cur.r + 1]
          /\ UNCHANGED <<pc, dotfiles, fault, log>>
       \/ \* neither subdir nor movie nor tv: NotImplementedError
          /\ cur.r <= Len(paths)
          /\ cur.l <= Len(CurLeaves)
          /\ ~IsMainModeMovie(cfg[CurNode])
          /\ ~IsMainModeTV(cfg[CurNode])
          /\ Fault("NotImplementedError")
          /\ UNCHANGED <<cur, dotfiles, log>>
       \/ \* the items of this node are exhausted: back to the parent's loop
          /\ cur.r <= Len(paths)
          /\ cur.l <= Len(CurLeaves)
          /\ IsMainModeMovie(cfg[CurNode]) \/ IsMainModeTV(cfg[CurNode])
          /\ cur.i > Len(NodeItems(CurNode))
          /\ cur' = [cur EXCEPT !.l = cur.l + 1, !.i = 1, !.v = 1]
          /\ UNCHANGED <<pc, dotfiles, fault, log>>
       \/ \* the item's dot file exists: continue
          /\ cur.r <= Len(paths)
          /\ cur.l <= Len(CurLeaves)
          /\ IsMainModeMovie(cfg[CurNode]) \/ IsMainModeTV(cfg[CurNode])
          /\ cur.i <= Len(NodeItems(CurNode))
          /\ ItemAlreadyDone(dotfiles, CurItem)
          /\ cur' = [cur EXCEPT !.i = cur.i + 1, !.v = 1]
          /\ log' = Append(log, [ev |-> "already done", item |-> CurItem])
          /\ UNCHANGED <<pc, dotfiles, fault>>
       \/ \* self.ProcessMovie(item[2])
          /\ cur.r <= Len(paths)
          /\ cur.l <= Len(CurLeaves)
          /\ IsMainModeMovie(cfg[CurNode])
          /\ cur.i <= Len(NodeItems(CurNode))
          /\ ~ItemAlreadyDone(dotfiles, CurItem)
          /\ pc' = "ProcessMovie"
          /\ cur' = [cur EXCEPT !.v = 1]
          /\ UNCHANGED <<dotfiles, fault, log>>
       \/ \* self.ProcessTV(item[2]): the seasons and the dots are listed
          /\ cur.r <= Len(paths)
          /\ cur.l <= Len(CurLeaves)
          /\ IsMainModeTV(cfg[CurNode])
          /\ cur.i <= Len(NodeItems(CurNode))
          /\ ~ItemAlreadyDone(dotfiles, CurItem)
          /\ pc' = "ProcessTV"
          /\ cur' = [cur EXCEPT !.s = 1, !.v = 1,
                                !.dots = {SeasonDone(se) : se \in Range(Seasons(CurItem))}
                                         \cap dotfiles]
          /\ UNCHANGED <<dotfiles, fault, log>>
    /\ UNCHANGED <<cfg, paths, children, fsize, dims, stemdir, call, startfiles,
                   failed, odd, result,
                   items, added, known, interrupted>>

(***************************************************************************)
(* ConvyConfig.ProcessMovie, ConvyConfig.ProcessVideo and ffmpeg.          *)
(***************************************************************************)
\* what an observation of an environment fact may give: what was seen before,
\* or else anything while a fact may still differ from the baseline
Observe(seen, unknown, choices, base) ==
    IF seen # unknown THEN {seen}
    ELSE IF odd < MaxOdd THEN choices
    ELSE {base}

Cost(picked, base) == IF picked = base THEN 0 ELSE 1

\* a variant of RaiseItemProcessed that returns to the caller instead
ReturnAfterRun ==
    /\ pc' = IF IsMainModeTV(cfg[CurNode]) THEN "ProcessTV" ELSE "ProcessMovie"
    /\ cur' = [cur EXCEPT !.v = cur.v + 1]

\* raise ItemProcessed: nothing between ProcessVideo and processdirs catches it,
\* processdirs catches it and returns
RaiseItemProcessed ==
    /\ pc' = "idle"
    /\ cur' = cur

\* a variant of ReturnToCaller that ends the cycle as a finished encode does
ReturnEndsCycle ==
    /\ pc' = "idle"
    /\ cur' = cur

\* ProcessVideo returns to ProcessMovie or to _ProcessTV_SeasonEpisode, which
\* sleeps 5 seconds; the loop takes its next file
ReturnToCaller ==
    /\ pc' = IF IsMainModeTV(cfg[CurNode]) THEN "ProcessTV" ELSE "ProcessMovie"
    /\ cur' = [cur EXCEPT !.v = cur.v + 1]

\* ProcessMovie or ProcessTV has returned: Process writes the item's dot file
\* and takes its next item
MarkItem ==
    /\ dotfiles' = dotfiles \cup {ItemDone(CurItem)}
    /\ log' = Append(log, [ev |-> "marked", item |-> CurItem])
    /\ pc' = "Process"
    /\ cur' = [cur EXCEPT !.i = cur.i + 1, !.v = 1]
    /\ UNCHANGED <<fsize, dims, call, fault, odd>>

\* one file of a movie directory (the body of the loop of ProcessMovie) or one
\* episode (_ProcessTV_SeasonEpisode): its size, its resolution, its ladder, the
\* call of ProcessVideo
ProbeAndCall(f, multi) ==
    \E sz \in Observe(fsize[f], "?", {"zero", "nonzero"}, "nonzero") :
    \E wh \in Observe(dims[f], <<>>, DimsSet, BaseDims) :
    LET res == GuessResolution(wh[1], wh[2])
        sets == LadderSets(cfg, CurNode, res, wh[1], wh[2], multi)
    IN  /\ fsize' = [fsize EXCEPT ![f] = sz]
        /\ IF sz = "zero"
           THEN /\ cur' = [cur EXCEPT !.v = cur.v + 1]
                /\ log' = Append(log, [ev |-> "zero size", video |-> f])
                /\ wh = IF dims[f] = <<>> THEN BaseDims ELSE dims[f]
                /\ odd' = odd + (IF fsize[f] = "?" THEN Cost(sz, "nonzero") ELSE 0)
                /\ UNCHANGED <<dims, pc, call, fault>>
           ELSE /\ dims' = [dims EXCEPT ![f] = wh]
                /\ odd' = odd + (IF dims[f] = <<>> THEN Cost(wh, BaseDims) ELSE 0)
                /\ log' = Append(log, [ev |-> "probe", video |-> f])
                /\ IF res = "NameError"
                   THEN Fault("NameError") /\ UNCHANGED <<cur, call>>
                   ELSE IF "video.passes" \notin DOMAIN sets[1]
                   THEN Fault("NotImplementedError") /\ UNCHANGED <<cur, call>>
                   ELSE /\ pc' = "ProcessVideo"
                        /\ call' = [item |-> CurItem, path |-> f, sets |-> sets,
                                    passes |-> IntOf(sets[1]["video.passes"]),
                                    i |-> 0, args |-> <<>>, dones |-> <<>>]
                        /\ UNCHANGED <<cur, fault>>

\* one iteration of the loop of ProcessMovie, up to the first pass of ProcessVideo
ProcessMovie ==
    /\ pc = "ProcessMovie"
    /\ \/ \* no file is left: ProcessMovie returns and Process marks the item
          /\ cur.v > Len(VideoFiles(CurItem))
          /\ MarkItem
       \/ \* a file
          /\ cur.v <= Len(VideoFiles(CurItem))
          /\ ProbeAndCall(CurVideo, Multi(cfg[CurNode], CurItem, CurVideo))
          /\ UNCHANGED dotfiles
    /\ UNCHANGED <<cfg, paths, children, stemdir, startfiles, failed, result,
                   items, added, known, interrupted>>

CurSeason == Seasons(CurItem)[cur.s]

CurEpisode == Episodes(CurSeason)[cur.v]

\* one iteration of the loops of ProcessTV and _ProcessTV_Season, up to the first
\* pass of ProcessVideo
ProcessTV ==
    /\ pc = "ProcessTV"
    /\ \/ \* no season is left: ProcessTV returns and Process marks the item
          /\ cur.s > Len(Seasons(CurItem))
          /\ MarkItem
       \/ \* '.' + season is in dots: the season is passed over
          /\ cur.s <= Len(Seasons(CurItem))
          /\ SeasonInDots(cur.dots, CurSeason)
          /\ log' = Append(log, [ev |-> "already done season", season |-> CurSeason])
          /\ cur' = [cur EXCEPT !.s = cur.s + 1, !.v = 1]
          /\ UNCHANGED <<dotfiles, fsize, dims, pc, call, fault, odd>>
       \/ \* _ProcessTV_Season has returned: the dot file of the season
          /\ cur.s <= Len(Seasons(CurItem))
          /\ ~SeasonInDots(cur.dots, CurSeason)
          /\ cur.v > Len(Episodes(CurSeason))
          /\ dotfiles' = dotfiles \cup {SeasonDone(CurSeason)}
          /\ log' = Append(log, [ev |-> "season marked", season |-> CurSeason])
          /\ cur' = [cur EXCEPT !.s = cur.s + 1, !.v = 1]
          /\ UNCHANGED <<fsize, dims, pc, call, fault, odd>>
       \/ \* an episode
          /\ cur.s <= Len(Seasons(CurItem))
          /\ ~SeasonInDots(cur.dots, CurSeason)
          /\ cur.v <= Len(Episodes(CurSeason))
          /\ ProbeAndCall(CurEpisode, MultiEpisode(cfg[CurNode]))
          /\ UNCHANGED dotfiles
    /\ UNCHANGED <<cfg, paths, children, stemdir, startfiles, failed, result,
                   items, added, known, interrupted>>

\* the head of one pass of ProcessVideo: the command and the pending dot files
ProcessVideo ==
    /\ pc = "ProcessVideo"
    /\ LET a == Aggregate(dotfiles, call.path, call.sets, call.i + 1,
                          [err |-> "none", args |-> <<>>, dones |-> <<>>])
       IN  \/ \* range(0, passes) is exhausted (passes = 0): return
              /\ call.i >= call.passes
              /\ ReturnToCaller
              /\ call' = NoCall
              /\ log' = Append(log, [ev |-> "sleep", video |-> call.path,
                                     passes |-> call.passes])
              /\ UNCHANGED fault
           \/ \* an exception while the command is built
              /\ call.i < call.passes
              /\ a.err # "none"
              /\ Fault(a.err)
              /\ UNCHANGED <<cur, call, log>>
           \/ \* all are processed: return
              /\ call.i < call.passes
              /\ a.err = "none"
              /\ Len(a.dones) = 0
              /\ ReturnToCaller
              /\ call' = NoCall
              /\ log' = Append(log, [ev |-> "sleep", video |-> call.path,
                                     passes |-> call.passes])
              /\ UNCHANGED fault
           \/ \* subprocess.run(args) is called
              /\ call.i < call.passes
              /\ a.err = "none"
              /\ Len(a.dones) > 0
              /\ pc' = "run"
              /\ call' = [call EXCEPT !.args = a.args, !.dones = a.dones]
              /\ log' = Append(log, [ev |-> "run", video |-> call.path,
                                     pass |-> call.i + 1, passes |-> call.passes,
                                     args |-> a.args, dones |-> a.dones])
              /\ UNCHANGED <<cur, fault>>
    /\ UNCHANGED <<cfg, paths, children, dotfiles, fsize, dims, stemdir, startfiles,
                   failed, odd, result,
                   items, added, known, interrupted>>

\* the event tells that an encode invocation is over: an exception, or the
\* return of the last pass
Finished(e) == e.ev = "raised" \/ (e.ev = "returned" /\ e.pass >= e.passes)

\* the event tells that a pass failed
FailedPass(e) == e.ev = "raised" \/ (e.ev = "returned" /\ e.rc # 0)

\* what subprocess.run did, for the log; rc is the exit status of ffmpeg
Ran(how, rc) == [ev |-> how, video |-> call.path, pass |-> call.i + 1,
                 passes |-> call.passes, dones |-> call.dones, rc |-> rc]

\* the exit status of ffmpeg: 0, or 1 for all that is not 0
ExitStatus == {0, 1}

\* subprocess.run raised: no exit status
NoStatus == 2

\* a variant of OpenAll that writes no dot file
OpenNone(files, dones) == files

\* "for done in dones: with open(done, 'w')": the files that exist afterwards
OpenAll(files, dones) == files \cup Range(dones)

\* what may be picked for a fact that may differ from the baseline, when this
\* step has spent some of the differences already
Afford(spent, choices, base) == IF odd + spent < MaxOdd THEN choices ELSE {base}

\* what happens inside SendNotification: GetPushoverCredentials and send_message
\* return (the message is sent, or there is nothing to send it with), or one of
\* them raises
NotifyOutcomes == {"sent", "raised"}

\* a variant of SendNotification that lets the exception of the send out
SendNotificationUnguarded(outcome) ==
    IF outcome = "raised" THEN "NotifierError" ELSE "none"

\* ConvyConfig.SendNotification: the exception that leaves it; the send is inside
\* try / except, which prints the traceback and returns
SendNotification(outcome) == "none"

\* SendNotification was called, for the log
Notified(outcome) == [ev |-> "notify", video |-> call.path, result |-> outcome]

\* "for done in dones: with open(done, 'w')": open raises FileNotFoundError when
\* the directory of the dot files does not exist; all of them are in the same
\* one.  Then SendNotification, then raise ItemProcessed.
WriteDones(ran, how, rc) ==
    LET spent0 == IF ran = "raised" \/ rc = 1 THEN 1 ELSE 0 IN
    \E sd \in (IF stemdir[call.path] # "?" THEN {stemdir[call.path]}
               ELSE Afford(spent0, {"yes", "no"}, "yes")) :
    LET spent1 == spent0 + (IF stemdir[call.path] = "?" THEN Cost(sd, "yes") ELSE 0) IN
        /\ stemdir' = [stemdir EXCEPT ![call.path] = sd]
        /\ IF sd = "no"
           THEN /\ Fault("FileNotFoundError")
                /\ log' = Append(log, Ran(ran, rc))
                /\ odd' = odd + spent1
                /\ UNCHANGED <<dotfiles, cur, call>>
           ELSE \E n \in Afford(spent1, NotifyOutcomes, "sent") :
                /\ dotfiles' = OpenAll(dotfiles, call.dones)
                /\ log' = log \o <<Ran(ran, rc), Ran(how, rc), Notified(n)>>
                /\ odd' = odd + spent1 + Cost(n, "sent")
                /\ IF SendNotification(n) = "none"
                   THEN RaiseItemProcessed /\ call' = NoCall /\ UNCHANGED fault
                   ELSE Fault(SendNotification(n)) /\ UNCHANGED <<cur, call>>

\* subprocess.run(args) returns, whatever the exit status of ffmpeg (there is
\* no check=True and the CompletedProcess is dropped), or raises
subprocess_run ==
    /\ pc = "run"
    /\ \/ \* it returns and passes are left: SendNotification, the next pass
          /\ call.i + 1 < call.passes
          /\ \E rc \in Afford(0, ExitStatus, 0) :
             \E n \in Afford(Cost(rc, 0), NotifyOutcomes, "sent") :
                /\ log' = log \o <<Ran("returned", rc), Notified(n)>>
                /\ failed' = IF rc = 0 THEN failed ELSE failed \cup {call.path}
                /\ odd' = odd + Cost(rc, 0) + Cost(n, "sent")
                /\ IF SendNotification(n) = "none"
                   THEN /\ pc' = "ProcessVideo"
                        /\ call' = [call EXCEPT !.i = call.i + 1]
                        /\ UNCHANGED fault
                   ELSE Fault(SendNotification(n)) /\ UNCHANGED call
          /\ UNCHANGED <<dotfiles, stemdir, cur>>
       \/ \* it returns from the last pass: the dot files, then ItemProcessed
          /\ ~(call.i + 1 < call.passes)
          /\ \E rc \in Afford(0, ExitStatus, 0) :
                /\ WriteDones("returned", "completed", rc)
                /\ failed' = IF rc = 0 THEN failed ELSE failed \cup {call.path}
       \/ \* it raises: the dot files, then ItemProcessed
          /\ odd < MaxOdd
          /\ failed' = failed \cup {call.path}
          /\ WriteDones("raised", "failed", NoStatus)
    /\ UNCHANGED <<cfg, paths, children, fsize, dims, startfiles, result,
                   items, added, known, interrupted>>

(***************************************************************************)
(* What happens to the process and to the library from outside.            *)
(***************************************************************************)
\* between two cycles somebody puts the movie directory NewItem under the root B
NewDirectory ==
    /\ pc = "idle"
    /\ RootB \in Range(paths)
    /\ ~added
    /\ odd < MaxOdd
    /\ added' = TRUE
    /\ odd' = odd + 1
    /\ UNCHANGED <<cfg, paths, children, dotfiles, fsize, dims, stemdir, pc, cur, call,
                   fault, log, startfiles, failed, result, items, known, interrupted>>

\* the process is killed during ProcessVideo (while a command is built or
\* while ffmpeg runs), and started again: what the objects held is lost, the
\* files are what they were (ffmpeg writes no dot file)
Kill ==
    /\ pc \in {"ProcessVideo", "run"}
    /\ odd < MaxOdd
    /\ odd' = odd + 1
    /\ interrupted' = interrupted \cup {call.path}
    /\ failed' = IF \E i \in 1..Len(log) : FailedPass(log[i]) /\ log[i].video = call.path
                 THEN failed \ {call.path}
                 ELSE failed
    /\ pc' = "main"
    /\ paths' = <<>>
    /\ children' = [d \in AllDirs |-> <<>>]
    /\ items' = [d \in AllDirs |-> <<>>]
    /\ cur' = StartOfWalk
    /\ call' = NoCall
    /\ log' = <<>>
    /\ startfiles' = dotfiles
    /\ UNCHANGED <<cfg, dotfiles, fsize, dims, stemdir, fault, result, added,
                   known>>

Next ==
    \/ \E path \in Roots : addpath(path)
    \/ NewDirectory
    \/ Kill
    \/ processdirs
    \/ daemon_loop
    \/ Process
    \/ ProcessMovie
    \/ ProcessTV
    \/ ProcessVideo
    \/ subprocess_run

Spec == Init /\ [][Next]_vars

(***************************************************************************)
(* Direct calls of GetSettings and of the ladder code, on a chain of three *)
(* nodes whose descriptors are drawn from all the ways of setting one key  *)
(* k in [settings] and in [settings-sd].                                   *)
(***************************************************************************)
Unset == "-"

Values == {"a", "b"}

\* a descriptor whose [settings] has k = g and whose [settings-sd] has k = t
\* (Unset: the section is absent)
Layer(g, t) ==
    [s \in {<<"main">>} \cup (IF g = Unset THEN {} ELSE {<<"settings">>})
                        \cup (IF t = Unset THEN {} ELSE {<<"settings", "sd">>}) |->
        IF s = <<"main">> THEN << <<"mode", "subdir">> >>
        ELSE IF s = <<"settings">> THEN << <<"k", g>> >>
        ELSE << <<"res", "sd">>, <<"k", t>> >>]

Layers == {Layer(g, t) : g \in Values \cup {Unset}, t \in Values \cup {Unset}}

\* the dimension pairs GuessResolution knows
KnownDims == {wh \in DimsSet : GuessResolution(wh[1], wh[2]) \in Tiers}

InitFn ==
    /\ \E c1 \in Layers : \E c2 \in Layers : \E c3 \in Layers :
          cfg = [d \in AllDirs |->
                    IF d = RootA THEN c1
                    ELSE IF d = <<"A", "m1">> THEN c2
                    ELSE IF d = <<"A", "m1", "F1">> THEN c3
                    ELSE NoCfg]
    /\ paths = <<>>
    /\ children = [d \in AllDirs |-> <<>>]
    /\ dotfiles = {}
    /\ fsize = [v \in Videos |-> "?"]
    /\ dims = [v \in Videos |-> <<>>]
    /\ stemdir = [v \in Videos |-> "?"]
    /\ pc = "fn"
    /\ cur = StartOfWalk
    /\ call = NoCall
    /\ fault = "none"
    /\ log = <<>>
    /\ startfiles = {}
    /\ failed = {}
    /\ odd = 0
    /\ result = NoResult
    /\ items = [d \in AllDirs |-> <<>>]
    /\ added = FALSE
    /\ known = {}
    /\ interrupted = {}

\* node d's GetSettings on a fresh settings dict
Resolve(d, wh) ==
    /\ pc = "fn"
    /\ result' = [op |-> "GetSettings", node |-> d,
                  tier |-> GuessResolution(wh[1], wh[2]),
                  settings |-> GetSettings(cfg, d,
                                  [resolution |-> GuessResolution(wh[1], wh[2]),
                                   width |-> wh[1], height |-> wh[2]])]
    /\ UNCHANGED <<cfg, paths, children, dotfiles, fsize, dims, stemdir, pc, cur, call,
                   fault, log, startfiles, failed, odd, items, added, known, interrupted>>

\* node d's ladder code for a file of dimensions wh
Expand(d, wh, multi) ==
    /\ pc = "fn"
    /\ result' = [op |-> "ladder", node |-> d,
                  tier |-> GuessResolution(wh[1], wh[2]), multi |-> multi,
                  sets |-> LadderSets(cfg, d, GuessResolution(wh[1], wh[2]),
                                      wh[1], wh[2], multi)]
    /\ UNCHANGED <<cfg, paths, children, dotfiles, fsize, dims, stemdir, pc, cur, call,
                   fault, log, startfiles, failed, odd, items, added, known, interrupted>>

NextFn ==
    \/ \E d \in ChainDirs : \E wh \in KnownDims : Resolve(d, wh)
    \/ \E d \in ChainDirs : \E wh \in KnownDims : \E multi \in BOOLEAN : Expand(d, wh, multi)

SpecFn == InitFn /\ [][NextFn]_vars

(***************************************************************************)
(* What the properties below speak of.                                     *)
(***************************************************************************)
\* the ladder of tiers of a file classified t
ExpectedLadder(t, multi) ==
    IF ~multi THEN <<t>>
    ELSE IF t = "4k" THEN <<"4k", "1k", "hd", "sd">>
    ELSE IF t = "1k" THEN <<"1k", "hd", "sd">>
    ELSE IF t = "hd" THEN <<"hd", "sd">>
    ELSE <<"sd">>

\* the videos below the registered roots
RegisteredVideos ==
    UNION {UNION {IF IsMainModeTV(cfg[n])
                  THEN UNION {Range(Episodes(se)) : se \in Range(Seasons(it))}
                  ELSE Range(VideoFiles(it)) : it \in Range(NodeItems(n))} :
              n \in Range(Leaves(cfg, children, paths))}

\* the video has been probed and its dimensions are known ones
Classified(v) == dims[v] # <<>> /\ dims[v] \in KnownDims

\* the ladder of a classified video
LadderOf(v) ==
    ExpectedLadder(GuessResolution(dims[v][1], dims[v][2]),
                   IF ItemOf(v) = v.dir
                   THEN Multi(cfg[Front(v.dir)], v.dir, v)
                   ELSE MultiEpisode(cfg[Front(ItemOf(v))]))

\* the output file of one rung of a video
TargetOf(v, t) == [dir |-> v.dir \o v.base, base |-> <<" ", t>>, ext |-> v.ext]

\* the rung markers of the ladder of a classified video, in ladder order
LadderMarkers(v) == [j \in 1..Len(LadderOf(v)) |-> Marker(v, LadderOf(v)[j])]

AllRungMarkers == UNION {RungMarkers(v) : v \in Videos}

\* the rung markers written since the cycle started
WrittenRungMarkers == (dotfiles \ startfiles) \cap AllRungMarkers


(***************************************************************************)
(* C1 - C3: one encode per cycle, idempotence, no retry.                   *)
(***************************************************************************)
\* C1: in one cycle of processdirs ffmpeg is run for at most one video, and once
\* an encode invocation is over (the last pass returned, or a pass raised) no
\* video is probed and ffmpeg is not run again before the cycle ends.
C1_OneEncodePerCycle ==
    /\ \A i \in 1..Len(log) : \A j \in 1..Len(log) :
          (log[i].ev = "run" /\ log[j].ev = "run") => log[i].video = log[j].video
    /\ \A i \in 1..Len(log) : Finished(log[i]) =>
          \A j \in (i + 1)..Len(log) : log[j].ev \notin {"probe", "run", "zero size"}

\* a cycle has ended on an encode while an item that comes later in the walk
\* still has no dot file
C1_Witness ==
    /\ pc = "idle"
    /\ \E i \in 1..Len(log) : log[i].ev \in {"completed", "failed"}
    /\ \E i \in 1..Len(log) : \E v \in RegisteredVideos :
          /\ log[i].ev = "run"
          /\ ItemOf(v) # ItemOf(log[i].video)
          /\ ItemDone(ItemOf(v)) \notin dotfiles
          /\ \A t \in Tiers : Marker(v, t) \notin dotfiles

\* C2: when every rung of the ladder of every video below the registered roots
\* had its dot file as the cycle started, the cycle does not run ffmpeg.
C2_Idempotent ==
    (\A v \in RegisteredVideos : Classified(v) =>
        Range(LadderMarkers(v)) \subseteq startfiles)
    => \A i \in 1..Len(log) : log[i].ev # "run"

\* a whole cycle has walked videos that were all marked: ProcessVideo was entered
\* and returned with nothing to do
C2_Witness ==
    /\ pc = "idle"
    /\ RegisteredVideos # {}
    /\ \A v \in RegisteredVideos :
          /\ Classified(v)
          /\ Range(LadderMarkers(v)) \subseteq startfiles
          /\ \E i \in 1..Len(log) : log[i].ev = "sleep" /\ log[i].video = v

C4_FailureSettled ==
    \A i \in 1..Len(log) : FailedPass(log[i]) =>
        /\ fault = "none"
        /\ \E j \in (i + 1)..Len(log) :
              log[j].ev = "failed" /\ log[j].dones = log[i].dones
        /\ WrittenRungMarkers = Range(log[i].dones)

\* C5: when every pass of an invocation has returned with status 0, a completion
\* dot file is written for each rung that was left in the command and for no
\* other rung; and no rung dot file is written before an invocation is over.
C5_CompletionMarkers ==
    /\ \A i \in 1..Len(log) :
          (/\ log[i].ev = "returned"
           /\ log[i].pass >= log[i].passes
           /\ \A j \in 1..i : log[j].ev = "returned" => log[j].rc = 0)
          => /\ fault = "none"
             /\ \E j \in (i + 1)..Len(log) :
                   log[j].ev = "completed" /\ log[j].dones = log[i].dones
             /\ WrittenRungMarkers = Range(log[i].dones)
    /\ WrittenRungMarkers # {} => \E i \in 1..Len(log) : Finished(log[i])

\* C6: when the ladder of a video has several rungs and exactly one of them had
\* its dot file as the cycle started, every command built for the video has one
\* output for each other rung, in ladder order, and none for that rung: the
\* pending dot files are those of the other rungs, and past the first pass the
\* targets are the files of the other rungs.
C6_PartialSkip ==
    \A i \in 1..Len(log) :
        (/\ log[i].ev = "run"
         /\ Len(LadderOf(log[i].video)) > 1
         /\ Cardinality(Range(LadderMarkers(log[i].video)) \cap startfiles) = 1)
        => LET v == log[i].video
               others == SelectSeq(LadderOf(v), LAMBDA t : Marker(v, t) \notin startfiles)
           IN  /\ Len(others) = Len(LadderOf(v)) - 1
               /\ log[i].dones = [j \in 1..Len(others) |-> Marker(v, others[j])]
               /\ Len(log[i].args) = 1 + Len(others)
               /\ log[i].args[1] = [input |-> v]
               /\ log[i].pass > 1 =>
                     \A j \in 1..Len(others) :
                         log[i].args[j + 1].target = TargetOf(v, others[j])

\* a command was built, past the first pass, for a video of a ladder of three
\* rungs one of which was marked
C6_Witness ==
    \E i \in 1..Len(log) :
        /\ log[i].ev = "run"
        /\ log[i].pass > 1
        /\ Len(LadderOf(log[i].video)) = 3
        /\ Cardinality(Range(LadderMarkers(log[i].video)) \cap startfiles) = 1
        /\ Len(log[i].dones) = 2

\* C7: ffmpeg is run once for each pass 1..passes, in order; in every run before
\* the last each output goes to os.devnull, and in the last run each output
\* goes to the file of its rung.
C7_Passes ==
    \A i \in 1..Len(log) : log[i].ev = "run" =>
        /\ log[i].pass = Cardinality({j \in 1..i : log[j].ev = "run"})
        /\ log[i].pass <= log[i].passes
        /\ \A j \in 2..Len(log[i].args) :
              IF log[i].pass < log[i].passes
              THEN log[i].args[j].target = DevNull
              ELSE log[i].args[j].target # DevNull

PathTo(d) == {SubSeq(d, 1, n) : n \in 1..Len(d)}

\* the sections GetSettings reads for a tier
Applicable(tier) == {<<"settings">>, <<"settings", tier>>}

\* the descriptor c sets key k in its section sec
SetsKey(c, sec, k) == sec \in DOMAIN c /\ Lookup(c[sec], k) # None

\* the nodes on the path to d that set k in a section applicable to the tier
Setters(d, tier, k) ==
    {n \in PathTo(d) : \E sec \in Applicable(tier) : SetsKey(cfg[n], sec, k)}

\* the deepest of a set of nodes of one path
Deepest(ns) == CHOOSE n \in ns : \A m \in ns : Len(m) <= Len(n)

\* what node n gives to k for the tier: its tier section before its generic one
Own(n, tier, k) ==
    IF SetsKey(cfg[n], <<"settings", tier>>, k)
    THEN Lookup(cfg[n][<<"settings", tier>>], k)
    ELSE Lookup(cfg[n][<<"settings">>], k)

\* C9 as stated: when an ancestor sets k = a and the node or a node between them
\* sets k = b, each in an applicable section, the resolved settings have k = b.
C9_OverrideLaw ==
    result.op = "GetSettings" =>
        \A anc \in PathTo(result.node) : \A desc \in PathTo(result.node) :
        \A sa \in Applicable(result.tier) : \A sb \in Applicable(result.tier) :
            (/\ Len(anc) < Len(desc)
             /\ SetsKey(cfg[anc], sa, "k")
             /\ SetsKey(cfg[desc], sb, "k"))
            => /\ "k" \in DOMAIN result.settings
               /\ result.settings["k"] = Lookup(cfg[desc][sb], "k")

\* C9: the resolved settings have k exactly when a node on the path from the root
\* to the node sets k in an applicable section, and then k has the value of the
\* deepest such node, taken from that node's section of the tier when it sets k
\* there and from its generic section otherwise.
C9_DeepestWins ==
    result.op = "GetSettings" =>
        IF Setters(result.node, result.tier, "k") = {}
        THEN "k" \notin DOMAIN result.settings
        ELSE /\ "k" \in DOMAIN result.settings
             /\ result.settings["k"] =
                   Own(Deepest(Setters(result.node, result.tier, "k")), result.tier, "k")

\* the root sets k = a in the section of the tier, the node below sets k = b in
\* its generic section only, and the settings resolved at that node have k = b
C9_Witness ==
    /\ result.op = "GetSettings"
    /\ result.node = <<"A", "m1">>
    /\ result.tier = "sd"
    /\ SetsKey(cfg[RootA], <<"settings", "sd">>, "k")
    /\ Lookup(cfg[RootA][<<"settings", "sd">>], "k") = "a"
    /\ ~SetsKey(cfg[result.node], <<"settings", "sd">>, "k")
    /\ SetsKey(cfg[result.node], <<"settings">>, "k")
    /\ Lookup(cfg[result.node][<<"settings">>], "k") = "b"
    /\ result.settings["k"] = "b"

\* C10: the resolutions of the settings list built for a file classified t are
\* <<t>> when multipleresolution is off, and otherwise the chain that descends
\* from t to sd.
C10_Ladder ==
    result.op = "ladder" =>
        [j \in 1..Len(result.sets) |-> result.sets[j]["resolution"]]
            = ExpectedLadder(result.tier, result.multi)

\* each tier has been expanded with multipleresolution on: here 4k, to four rungs
C10_Witness ==
    /\ result.op = "ladder"
    /\ result.multi
    /\ result.tier = "4k"
    /\ Len(result.sets) = 4

(***************************************************************************)
(* C11, C14: an unknown resolution, the daemon loop.                       *)
(***************************************************************************)
\* C11: when mediainfo has given for a video a dimension pair that
\* GuessResolution does not know, the process is not ended by an exception: the
\* cycle goes on with the next file.
C11_FaultIsolation ==
    \A v \in Videos :
        (dims[v] # <<>> /\ dims[v] \notin KnownDims) => fault = "none"

\* C14: the step of daemon_loop starts a cycle of processdirs, and a cycle that
\* has ended is not the end of the process.
C14_NoTerminalState ==
    [][daemon_loop => (pc' = "Process" /\ fault' = "none")]_vars

(***************************************************************************)
(* C12: the tree a cycle walks.                                            *)
(***************************************************************************)
\* C12: the nodes a cycle walks hold the item directories that are on the disk
\* when the cycle starts: a directory added under a registered movie node
\* between two cycles is among the items of the next cycle.
C12_TreeRebuilt ==
    pc \in {"Process", "ProcessMovie", "ProcessTV", "ProcessVideo", "run"}
    => \A n \in Range(Leaves(cfg, children, paths)) :
          Range(NodeItems(n)) = Range(OnDisk(n))

(***************************************************************************)
(* C13: an item of which nothing is pending.                               *)
(***************************************************************************)
\* ProcessVideo has returned at "if len(dones) == 0: return" for every video of
\* the item in this cycle: every rung of every video had its dot file
Skipped(item) ==
    \A v \in Range(VideoFiles(item)) :
        \E j \in 1..Len(log) :
            log[j].ev = "sleep" /\ log[j].video = v /\ log[j].passes >= 1

\* C13: when ProcessVideo has found nothing pending for every video of a movie
\* item, then, once ProcessMovie has returned, the item's own dot file exists,
\* written in this cycle, and the cycle has not ended with it: right after the
\* mark the walk is at the next item, and processdirs has returned only if
\* every root has been walked to its end.
C13_SkipMarksItem ==
    \A item \in Items : (VideoFiles(item) # <<>> /\ Skipped(item)) =>
        \/ /\ pc = "ProcessMovie"
           /\ CurItem = item
           /\ cur.v > Len(VideoFiles(item))
        \/ /\ ItemDone(item) \in dotfiles \ startfiles
           /\ \E m \in 1..Len(log) :
                 /\ log[m] = [ev |-> "marked", item |-> item]
                 /\ m = Len(log) =>
                       /\ pc \in {"Process", "ProcessMovie", "ProcessTV", "idle", "fault"}
                       /\ pc = "idle" => cur.r > Len(paths)
                       /\ pc = "ProcessMovie" => CurItem # item

\* an item was marked after ProcessVideo found nothing pending, and a video of
\* the next item was probed in the same cycle
C13_Witness ==
    \E m \in 1..Len(log) : \E n \in 1..Len(log) :
        /\ m < n
        /\ log[m].ev = "marked"
        /\ Skipped(log[m].item)
        /\ log[n].ev = "probe"
        /\ log[n].video \notin Range(VideoFiles(log[m].item))

(***************************************************************************)
(* C15: the process is killed during an encode.                            *)
(***************************************************************************)
\* the dot files of the ladder of a classified video that did not exist as the
\* cycle started, in ladder order
PendingAtStart(v) == SelectSeq(LadderMarkers(v), LAMBDA m : m \notin startfiles)

\* C15: for a video during whose encode the process was killed (between the
\* build of the command and the writing of the dot files), a later cycle of the
\* restarted process runs ffmpeg for exactly the rungs whose dot file did not
\* exist as that cycle started, none of which exists, and passes the video over
\* only when every rung of its ladder has its dot file.
C15_ResumeFromMarkers ==
    /\ \A i \in 1..Len(log) :
          (log[i].ev = "run" /\ log[i].video \in interrupted) =>
              /\ Classified(log[i].video)
              /\ log[i].dones = PendingAtStart(log[i].video)
              /\ Range(log[i].dones) \cap startfiles = {}
    /\ \A i \in 1..Len(log) :
          (/\ log[i].ev = "sleep"
           /\ log[i].passes >= 1
           /\ log[i].video \in interrupted) =>
              /\ Classified(log[i].video)
              /\ Range(LadderMarkers(log[i].video)) \subseteq dotfiles

\* after a kill during the encode of a video, the restarted process has come to
\* that video again and runs ffmpeg for its rungs, none of which has a dot file
C15_Witness ==
    \E i \in 1..Len(log) :
        /\ log[i].ev = "run"
        /\ log[i].video \in interrupted
        /\ log[i].dones # <<>>
        /\ log[i].dones = PendingAtStart(log[i].video)

(***************************************************************************)
(* C16: the dot files only grow.                                           *)
(***************************************************************************)
\* the events a step has added to the log of the cycle
Appended(old, new) ==
    IF Len(new) > Len(old) THEN SubSeq(new, Len(old) + 1, Len(new)) ELSE <<>>

\* the dot files the event tells were opened for writing
WrittenBy(e) ==
    IF e.ev \in {"completed", "failed"} THEN Range(e.dones)
    ELSE IF e.ev = "marked" THEN {ItemDone(e.item)}
    ELSE IF e.ev = "season marked" THEN {SeasonDone(e.season)}
    ELSE {}

\* C16: no step of the program removes a dot file, and no step opens for writing
\* a dot file (of a rung, of an item, of a season) that exists already.
C16_MarkersOnce ==
    [][/\ dotfiles \subseteq dotfiles'
       /\ \A i \in 1..Len(Appended(log, log')) :
             WrittenBy(Appended(log, log')[i]) \cap dotfiles = {}]_vars

\* a cycle has passed over an item whose dot file exists, has then written the
\* dot files of the rungs of a video, and dot files written in earlier cycles
\* are still there
C16_Witness ==
    \E i \in 1..Len(log) : \E j \in 1..Len(log) :
        /\ i < j
        /\ log[i].ev = "already done"
        /\ log[j].ev = "completed"
        /\ Range(log[j].dones) # {}
        /\ Range(log[j].dones) \subseteq dotfiles \ startfiles
        /\ \E v \in Videos : Marker(v, "1k") \in startfiles

(***************************************************************************)
(* C20: the dot file of an item, the dot file of a season.                 *)
(***************************************************************************)
\* the season of an episode (the directory that holds it)
SeasonOf(v) == v.dir

\* the event tells that the program looked at the video: its size was asked,
\* mediainfo was run on it, ProcessVideo was entered for it or ffmpeg was run
Touches(e, v) ==
    /\ e.ev \in {"zero size", "probe", "sleep", "run", "returned", "raised",
                 "completed", "failed", "notify"}
    /\ e.video = v

\* C20: in a cycle, no video of an item whose dot file existed as the cycle
\* started, and no episode of a season whose dot file existed as the cycle
\* started, is looked at: not its size, not its dimensions, and ffmpeg is not run
\* for it, whatever dot files its rungs have.
C20_GatedAbove ==
    \A i \in 1..Len(log) : \A v \in Videos :
        Touches(log[i], v) =>
            /\ ItemDone(ItemOf(v)) \notin startfiles
            /\ ItemOf(v) # v.dir => SeasonDone(SeasonOf(v)) \notin startfiles

\* a cycle has passed over an item whose dot file existed while a rung of one of
\* its videos had none
C20_WitnessItem ==
    \E i \in 1..Len(log) : \E v \in Videos :
        /\ log[i].ev = "already done"
        /\ log[i].item = ItemOf(v)
        /\ \E t \in Tiers : Marker(v, t) \notin dotfiles
        /\ pc = "idle"

\* a cycle has passed over a season whose dot file existed while no rung of its
\* episode had a dot file, and has ended
C20_Witness ==
    \E i \in 1..Len(log) : \E v \in Videos :
        /\ log[i].ev = "already done season"
        /\ log[i].season = SeasonOf(v)
        /\ \A t \in Tiers : Marker(v, t) \notin dotfiles
        /\ pc = "idle"

(***************************************************************************)
(* C17: the notifier.                                                      *)
(***************************************************************************)
\* C17: whether the send of a notification returned or raised, the program goes
\* on in the same way: after the notification of a finished invocation the dot
\* files of its pending rungs exist and processdirs has returned without an
\* exception; after the notification of a pass that is not the last one
\* ProcessVideo is at the next pass; no exception of the notifier ends the
\* process.
C17_NotifierSwallowed ==
    \A i \in 1..Len(log) : log[i].ev = "notify" =>
        /\ fault # "NotifierError"
        /\ i > 1
        /\ log[i - 1].ev \in {"completed", "failed", "returned"}
        /\ log[i - 1].ev \in {"completed", "failed"} =>
              /\ Range(log[i - 1].dones) \subseteq dotfiles
              /\ i = Len(log)
              /\ pc = "idle"
              /\ fault = "none"
        /\ (log[i - 1].ev = "returned" /\ i = Len(log)) =>
              /\ pc = "ProcessVideo"
              /\ call.i = log[i - 1].pass
              /\ call.path = log[i].video
              /\ fault = "none"

\* the send raised after the last pass of an invocation, whose dot files exist,
\* and the cycle has ended as after a send that returned
C17_Witness ==
    \E i \in 2..Len(log) :
        /\ log[i].ev = "notify"
        /\ log[i].result = "raised"
        /\ log[i - 1].ev = "completed"
        /\ Range(log[i - 1].dones) \subseteq dotfiles \ startfiles
        /\ pc = "idle"

(***************************************************************************)
(* C19: the order of the walk.                                             *)
(***************************************************************************)
\* the item an event of the log is about (no item for the event of a season)
EventItem(e) ==
    IF e.ev \in {"already done", "marked"} THEN e.item
    ELSE IF e.ev \in {"already done season", "season marked"} THEN Front(e.season)
    ELSE ItemOf(e.video)

\* the directories a node may hold, in sorted-name order
SortedDirs(d) == IF d = RootB THEN <<NewItem>> \o ListDirs(d) ELSE ListDirs(d)

\* the place of an item among the directories of its node in sorted-name order
Rank(item) == CHOOSE k \in 1..Len(SortedDirs(Front(item))) : SortedDirs(Front(item))[k] = item

\* C19: the items of a movie or tv node are visited in sorted-name order: of two
\* events of a cycle about items of the same node, the later one is not about
\* an item that sorts before the item of the earlier one.
C19_SortedOrder ==
    \A i \in 1..Len(log) : \A j \in 1..Len(log) :
        (i < j /\ Front(EventItem(log[i])) = Front(EventItem(log[j])))
        => Rank(EventItem(log[i])) <= Rank(EventItem(log[j]))

(***************************************************************************)
(* Direct calls of GetPushoverCredentials, on the chain of three nodes,    *)
(* whose descriptors are drawn from all the ways of leaving out, leaving   *)
(* empty or setting user and api in [pushover].                            *)
(***************************************************************************)
\* a descriptor whose [pushover] has user = u and api = a (Unset: the key is
\* absent); without the section when has is false
PushoverLayer(has, u, a) ==
    [s \in {<<"main">>} \cup (IF has THEN {<<"pushover">>} ELSE {}) |->
        IF s = <<"main">> THEN << <<"mode", "subdir">> >>
        ELSE (IF u = Unset THEN <<>> ELSE << <<"user", u>> >>)
             \o (IF a = Unset THEN <<>> ELSE << <<"api", a>> >>)]

\* what the convy.cfg of the k-th node of the chain may hold: each key absent,
\* empty ('user =') or set to a value of that node
PushoverLayers(k) ==
    {PushoverLayer(FALSE, Unset, Unset)}
    \cup {PushoverLayer(TRUE, u, a) : u \in {Unset, "", <<"u1", "u2", "u3">>[k]},
                                      a \in {Unset, "", <<"k1", "k2", "k3">>[k]}}

InitPushover ==
    /\ \E c1 \in PushoverLayers(1) : \E c2 \in PushoverLayers(2) :
       \E c3 \in PushoverLayers(3) :
          cfg = [d \in AllDirs |->
                    IF d = RootA THEN c1
                    ELSE IF d = <<"A", "m1">> THEN c2
                    ELSE IF d = <<"A", "m1", "F1">> THEN c3
                    ELSE NoCfg]
    /\ paths = <<>>
    /\ children = [d \in AllDirs |-> <<>>]
    /\ dotfiles = {}
    /\ fsize = [v \in Videos |-> "?"]
    /\ dims = [v \in Videos |-> <<>>]
    /\ stemdir = [v \in Videos |-> "?"]
    /\ pc = "fn"
    /\ cur = StartOfWalk
    /\ call = NoCall
    /\ fault = "none"
    /\ log = <<>>
    /\ startfiles = {}
    /\ failed = {}
    /\ odd = 0
    /\ result = NoResult
    /\ items = [d \in AllDirs |-> <<>>]
    /\ added = FALSE
    /\ known = {}
    /\ interrupted = {}

\* Python's "x or y" for x a string or None: y when x is None or empty
Or(x, y) == IF x # None /\ x # "" THEN x ELSE y

\* ConvyConfig.GetPushoverCredentials of node d: <<user, api>>
RECURSIVE GetPushoverCredentials(_, _)
GetPushoverCredentials(cf, d) ==
    LET has == <<"pushover">> \in DOMAIN cf[d]
        user == IF has THEN Lookup(cf[d][<<"pushover">>], "user") ELSE None
        api == IF has THEN Lookup(cf[d][<<"pushover">>], "api") ELSE None
    IN  IF Parent(d) # NoParent
        THEN LET ua == GetPushoverCredentials(cf, Parent(d))
             IN  <<Or(user, ua[1]), Or(api, ua[2])>>
        ELSE <<user, api>>

\* node d's GetPushoverCredentials
Credentials(d) ==
    /\ pc = "fn"
    /\ result' = [op |-> "GetPushoverCredentials", node |-> d,
                  user |-> GetPushoverCredentials(cfg, d)[1],
                  api |-> GetPushoverCredentials(cfg, d)[2]]
    /\ UNCHANGED <<cfg, paths, children, dotfiles, fsize, dims, stemdir, pc, cur, call,
                   fault, log, startfiles, failed, odd, items, added, known, interrupted>>

NextPushover == \E d \in ChainDirs : Credentials(d)

SpecPushover == InitPushover /\ [][NextPushover]_vars

(***************************************************************************)
(* C18: the credentials of the notifier.                                   *)
(***************************************************************************)
\* the value of the key of [pushover] in the nearest descriptor that has the
\* key, from node d up to the root; None when no descriptor has it
RECURSIVE NearestSet(_, _, _)
NearestSet(cf, d, key) ==
    IF <<"pushover">> \in DOMAIN cf[d] /\ Lookup(cf[d][<<"pushover">>], key) # None
    THEN Lookup(cf[d][<<"pushover">>], key)
    ELSE IF Parent(d) = NoParent THEN None
    ELSE NearestSet(cf, Parent(d), key)

\* C18: GetPushoverCredentials of a node returns, for user and for api, the
\* value of the nearest descriptor on the way to the root that sets the key,
\* and None only when no descriptor on the way sets it.
C18_NearestSetter ==
    result.op = "GetPushoverCredentials" =>
        /\ result.user = NearestSet(cfg, result.node, "user")
        /\ result.api = NearestSet(cfg, result.node, "api")

\* C18, for the descriptors that leave no key of [pushover] empty: the same
\* statement, which holds
C18_NearestNonEmpty ==
    (/\ result.op = "GetPushoverCredentials"
     /\ \A d \in PathTo(result.node) : \A key \in {"user", "api"} :
           <<"pushover">> \in DOMAIN cfg[d] => Lookup(cfg[d][<<"pushover">>], key) # "")
    => /\ result.user = NearestSet(cfg, result.node, "user")
       /\ result.api = NearestSet(cfg, result.node, "api")

(***************************************************************************)
(* C21: the sleep of five seconds.                                         *)
(***************************************************************************)
\* the event tells that the dot files of an invocation were written
Settled(e) == e.ev \in {"completed", "failed"}

\* C21: when the dot files of an invocation have been written and the cycle has
\* ended, time.sleep(5) was called after they were written; and time.sleep(5) is
\* not called for a video for which nothing was encoded.
C21_CooldownAfterSettle ==
    /\ pc = "idle" =>
          \A i \in 1..Len(log) : Settled(log[i]) =>
              \E j \in (i + 1)..Len(log) : log[j].ev = "sleep"
    /\ \A j \in 1..Len(log) : log[j].ev = "sleep" =>
          \E i \in 1..(j - 1) : Settled(log[i]) /\ log[i].video = log[j].video

\* C21, what holds instead: time.sleep(5) is called only after ProcessVideo has
\* returned with nothing encoded, and never in a cycle after the dot files of an
\* invocation were written
C21_SleepOnlyAfterSkip ==
    \A j \in 1..Len(log) : log[j].ev = "sleep" =>
        /\ \A i \in 1..Len(log) : ~Settled(log[i]) \/ i > j
        /\ \A i \in 1..Len(log) : Settled(log[i]) =>
              \A k \in (i + 1)..Len(log) : log[k].ev # "sleep"

(***************************************************************************)
(* C23: the settings of the rungs.                                         *)
(***************************************************************************)
\* what GetSettings of the node gives for one tier of a file of the dimensions
\* the rung carries
ResolvedFor(node, tier, rung) ==
    GetSettings(cfg, node, [resolution |-> tier, width |-> rung["width"],
                            height |-> rung["height"]])

\* C23: with multipleresolution on, every rung of the settings list is the
\* settings GetSettings resolves for the tier of that rung; so the first rung has
\* every key the descriptors set for its tier (k stands for any key of
\* [settings] and [settings-<res>], video.passes among them).
C23_RungSettings ==
    (result.op = "ladder" /\ result.multi) =>
        \A j \in 1..Len(result.sets) :
            result.sets[j] =
                ResolvedFor(result.node, ExpectedLadder(result.tier, TRUE)[j],
                            result.sets[j])

\* C23, for the files that are not classified hd: the same statement, which holds
C23_RungSettingsNotHd ==
    (result.op = "ladder" /\ result.multi /\ result.tier # "hd") =>
        \A j \in 1..Len(result.sets) :
            result.sets[j] =
                ResolvedFor(result.node, ExpectedLadder(result.tier, TRUE)[j],
                            result.sets[j])

(***************************************************************************)
(* C24: the dot file of an item and the dot files of its rungs.            *)
(***************************************************************************)
\* every rung of the ladder of the video has its dot file; for a video that was
\* never probed, whose ladder is not known, at least one rung has
AllRungsMarked(v) ==
    IF Classified(v) THEN Range(LadderMarkers(v)) \subseteq dotfiles
    ELSE RungMarkers(v) \cap dotfiles # {}

\* C24: when Process writes the dot file of a movie item, every rung of the
\* ladder of every video file of the item has its dot file, a file of size zero
\* included.
C24_ItemMarkerImpliesRungs ==
    \A i \in 1..Len(log) :
        (log[i].ev = "marked" /\ VideoFiles(log[i].item) # <<>>) =>
            \A v \in Range(VideoFiles(log[i].item)) : AllRungsMarked(v)

\* C24, for the items all of whose files were found not empty and with passes to
\* run: the same statement, which holds
C24_ExceptEmptyAndNoPass ==
    \A i \in 1..Len(log) :
        (/\ log[i].ev = "marked"
         /\ VideoFiles(log[i].item) # <<>>
         /\ \A j \in 1..Len(log) : log[j].ev # "zero size"
         /\ \A j \in 1..Len(log) : log[j].ev = "sleep" => log[j].passes >= 1) =>
            \A v \in Range(VideoFiles(log[i].item)) : AllRungsMarked(v)

(***************************************************************************)
(* C25: the modes Read accepts and the modes Process handles.              *)
(***************************************************************************)
\* the cycle stopped in Process on a node that is neither subdir, movie nor tv
UnknownConfigType ==
    /\ pc = "fault"
    /\ fault = "NotImplementedError"
    /\ cur.r <= Len(paths)
    /\ cur.l <= Len(CurLeaves)
    /\ ~IsMainModeMovie(cfg[CurNode])
    /\ ~IsMainModeTV(cfg[CurNode])

\* C25: a cycle over a node of any of the four modes Read accepts never ends
\* with the fault 'Unknown config type'.
C25_ValidModesProcess ==
    ~(UnknownConfigType /\ MainMode(cfg[CurNode]) \in VALID_MODES)

\* C25 for the modes subdir, movie and tv: the fault is raised on a soundtrack
\* node and on no other
C25_OnlySoundtrack ==
    UnknownConfigType => MainMode(cfg[CurNode]) = "soundtrack"

(***************************************************************************)
(* C22: the daemon left to run. The process is started, its roots are      *)
(* added and the cycles follow one another; nothing outside the process    *)
(* acts (no kill, no new directory). The process is sequential and keeps   *)
(* running, and a call of ffmpeg returns or raises: each step that is      *)
(* enabled is eventually taken.                                            *)
(***************************************************************************)
\* one step of the running process
Run ==
    \/ processdirs
    \/ daemon_loop
    \/ Process
    \/ ProcessMovie
    \/ ProcessTV
    \/ ProcessVideo
    \/ subprocess_run

NextLive ==
    \/ \E path \in Roots : addpath(path)
    \/ Run

SpecLive == Init /\ [][NextLive]_vars /\ WF_vars(Run)

\* the items below the registered roots
RegisteredItems ==
    UNION {Range(NodeItems(n)) : n \in Range(Leaves(cfg, children, paths))}

\* every probed file has dimensions GuessResolution recognizes
Recognized == \A v \in Videos : dims[v] = <<>> \/ dims[v] \in KnownDims

\* every rung of every registered video and every registered item has its dot
\* file, and ffmpeg is not running
Converged ==
    /\ \A v \in RegisteredVideos : AllRungsMarked(v)
    /\ \A it \in RegisteredItems : ItemDone(it) \in dotfiles
    /\ pc # "run"

\* C22: with files of recognized resolutions only, the daemon eventually reaches
\* a state where every rung of every item and every item has its dot file, and
\* from then on ffmpeg is never run.
C22_Converges == ([]Recognized) => <>[]Converged

\* the cycles go on: no exception leaves a cycle
NoFault == pc # "fault"

\* no item is marked past a file that was not encoded: no empty file, no
\* video.passes = 0, no item marked before the start without its rungs
NoneMarkedUnencoded ==
    /\ \A v \in Videos : fsize[v] # "zero"
    /\ \A i \in 1..Len(log) : log[i].ev = "sleep" => log[i].passes >= 1
    /\ \A v \in RegisteredVideos : ItemDone(ItemOf(v)) \in dotfiles => AllRungsMarked(v)

\* C22 for the behaviours in which the cycles go on and no item is marked past a
\* file that was not encoded: these converge
C22_ConvergesUnlessFault == ([](NoFault /\ NoneMarkedUnencoded)) => <>[]Converged

====
